---- MODULE Spec2Model ----
(***************************************************************************)
(* Standings / progression engine of football_stats_analysis               *)
(* (StatsCalculator.league_table and StatsCalculator.league_progression).   *)
(*                                                                         *)
(* self.data is a sequence of match rows; a row's position in self.data is  *)
(* its pandas index label.  A filtered or sorted frame (df) is the sequence *)
(* of index labels it holds, in frame order.  A dict of standings is a      *)
(* sequence of rows in insertion order, each carrying its key as Team.      *)
(***************************************************************************)
EXTENDS Integers, Sequences, FiniteSets

\* ---- bounds of the model -------------------------------------------------
MaxMatches == 3
MaxGoals == 1
MaxDate == 2
MaxRepoRows == 3
MaxRawRows == 2
MaxCalls == 2

Teams == {"A", "B", "C"}
Leagues == 1 .. 2
Seasons == 1 .. 2
Dates == 1 .. MaxDate
Goals == 0 .. MaxGoals

\* ---- the rows of the match table -----------------------------------------
Row(l, y, d, h, a, hg, ag) ==
  [league |-> l, year |-> y, Date |-> d,
   HomeTeam |-> h, AwayTeam |-> a, FTHG |-> hg, FTAG |-> ag]

\* matches of one league and season
SeasonRows ==
  {Row(1, 1, d, h, a, hg, ag) :
     d \in Dates, h \in Teams, a \in Teams, hg \in Goals, ag \in Goals}

\* matches of several leagues and seasons, among two clubs on one day
RepoRows ==
  {Row(l, y, 1, h, a, hg, 0) :
     l \in Leagues, y \in Seasons, h \in {"A", "B"}, a \in {"A", "B"},
     hg \in Goals}

\* rows as a loader may hand them over unchecked: a goal count below zero,
\* a club without a name
RawRows ==
  {Row(1, 1, d, h, a, hg, ag) :
     d \in Dates, h \in {"", "A", "B"}, a \in {"", "A", "B"},
     hg \in -1 .. MaxGoals, ag \in -1 .. MaxGoals}

SeqsUpTo(S, n) == UNION {[1 .. k -> S] : k \in 1 .. n}

\* The calculator takes every row it is given: nothing in it compares the two
\* clubs of a row, so a row naming one club on both sides is an input too.
\* Team ids are opaque keys (only compared for equality), so the home club of
\* the first row is named A and its away club A or B.
SeasonData ==
  {d \in SeqsUpTo(SeasonRows, MaxMatches) :
     d[1].HomeTeam = "A" /\ d[1].AwayTeam \in {"A", "B"}}

RepoData == SeqsUpTo(RepoRows, MaxRepoRows)

RawData == SeqsUpTo(RawRows, MaxRawRows)

\* ---- helpers on sequences ------------------------------------------------
Range(s) == {s[k] : k \in 1 .. Len(s)}

\* pd.unique: the distinct values in order of first appearance
RECURSIVE Unique(_)
Unique(s) ==
  IF s = <<>> THEN <<>>
  ELSE LET u == Unique(SubSeq(s, 1, Len(s) - 1))
       IN IF s[Len(s)] \in Range(u) THEN u ELSE Append(u, s[Len(s)])

\* sorted(x.unique()): the distinct values, ascending
RECURSIVE SortedSet(_)
SortedSet(S) ==
  IF S = {} THEN <<>>
  ELSE LET m == CHOOSE x \in S : \A y \in S : x <= y
       IN <<m>> \o SortedSet(S \ {m})

\* self.data[(self.data['league'] == league) & (self.data['year'] == season)]
RECURSIVE FilterFrom(_, _, _, _)
FilterFrom(d, l, s, k) ==
  IF k > Len(d) THEN <<>>
  ELSE (IF d[k].league = l /\ d[k].year = s THEN <<k>> ELSE <<>>)
       \o FilterFrom(d, l, s, k + 1)

Filter(d, l, s) == FilterFrom(d, l, s, 1)

\* the choices listed as the column holds them, without sorted()
NoMatchesErrorUnsorted(d) ==
  [leagues |-> Unique([k \in 1 .. Len(d) |-> d[k].league]),
   seasons |-> Unique([k \in 1 .. Len(d) |-> d[k].year])]

\* the payload of the ValueError raised for an empty selection
NoMatchesError(d) ==
  [leagues |-> SortedSet({d[k].league : k \in 1 .. Len(d)}),
   seasons |-> SortedSet({d[k].year : k \in 1 .. Len(d)})]

\* ---- dict of standings ---------------------------------------------------
Has(st, t) == \E k \in 1 .. Len(st) : st[k].Team = t

Pos(st, t) == CHOOSE k \in 1 .. Len(st) : st[k].Team = t

Get(st, t) == st[Pos(st, t)]

\* st[t][f] += v
Add(st, t, f, v) ==
  [st EXCEPT ![Pos(st, t)] = [@ EXCEPT ![f] = @ + v]]

NewStanding(t) ==
  [Team |-> t, Points |-> 0, Played |-> 0, Wins |-> 0, Draws |-> 0,
   Losses |-> 0, GF |-> 0, GA |-> 0]

\* if team not in standings: standings[team] = {...}
Ensure(st, t) == IF Has(st, t) THEN st ELSE Append(st, NewStanding(t))

\* the away win credited to the home side
TableResultHomeOnly(st, home, away, hg, ag) ==
  IF hg > ag
  THEN Add(Add(Add(st, home, "Points", 3), home, "Wins", 1), away, "Losses", 1)
  ELSE IF hg < ag
  THEN Add(Add(Add(st, home, "Points", 3), away, "Wins", 1), home, "Losses", 1)
  ELSE Add(Add(Add(Add(st, home, "Points", 1), away, "Points", 1),
               home, "Draws", 1), away, "Draws", 1)

\* the result branch of league_table
TableResult(st, home, away, hg, ag) ==
  IF hg > ag
  THEN Add(Add(Add(st, home, "Points", 3), home, "Wins", 1), away, "Losses", 1)
  ELSE IF hg < ag
  THEN Add(Add(Add(st, away, "Points", 3), away, "Wins", 1), home, "Losses", 1)
  ELSE Add(Add(Add(Add(st, home, "Points", 1), away, "Points", 1),
               home, "Draws", 1), away, "Draws", 1)

\* the away side's match is not counted
TablePlayedHomeOnly(st, home, away) == Add(st, home, "Played", 1)

\* standings[home]["Played"] += 1; standings[away]["Played"] += 1
TablePlayed(st, home, away) ==
  Add(Add(st, home, "Played", 1), away, "Played", 1)

\* standings[..]["GF"] += ..; standings[..]["GA"] += ..
TableGoals(st, home, away, hg, ag) ==
  Add(Add(Add(Add(st, home, "GF", hg), home, "GA", ag), away, "GF", ag),
      away, "GA", hg)

\* one iteration of the loop of league_table
TableApply(st, m) ==
  LET home == m.HomeTeam
      away == m.AwayTeam
      s0 == Ensure(Ensure(st, home), away)
      s1 == TablePlayed(s0, home, away)
      s2 == TableGoals(s1, home, away, m.FTHG, m.FTAG)
  IN TableResult(s2, home, away, m.FTHG, m.FTAG)

\* ---- ranking -------------------------------------------------------------
\* the goal difference compared ascending
BeforeAscendingGD(a, b) ==
  \/ a.Points > b.Points
  \/ a.Points = b.Points /\ a.GD < b.GD
  \/ a.Points = b.Points /\ a.GD = b.GD /\ a.GF > b.GF

\* a sorts strictly before b under by=[Points, GD, GF], all descending
Before(a, b) ==
  \/ a.Points > b.Points
  \/ a.Points = b.Points /\ a.GD > b.GD
  \/ a.Points = b.Points /\ a.GD = b.GD /\ a.GF > b.GF

\* position of x in an already sorted frame: behind every row it does not
\* strictly precede (the multi-key sort keeps equal rows in frame order)
RECURSIVE InsertSorted(_, _)
InsertSorted(s, x) ==
  IF s = <<>> THEN <<x>>
  ELSE IF Before(x, s[1]) THEN <<x>> \o s
  ELSE <<s[1]>> \o InsertSorted(Tail(s), x)

RECURSIVE SortValues(_)
SortValues(s) ==
  IF s = <<>> THEN <<>>
  ELSE InsertSorted(SortValues(SubSeq(s, 1, Len(s) - 1)), s[Len(s)])

WithGD(r) ==
  [Team |-> r.Team, Points |-> r.Points, Played |-> r.Played, Wins |-> r.Wins,
   Draws |-> r.Draws, Losses |-> r.Losses, GF |-> r.GF, GA |-> r.GA,
   GD |-> r.GF - r.GA]

\* the tail of league_table: from_dict, GD column, sort_values, reset_index
FinalTable(st) == SortValues([k \in 1 .. Len(st) |-> WithGD(st[k])])

\* the dict after the loop of league_table has consumed n rows of frame f
RECURSIVE TableFold(_, _, _)
TableFold(d, f, n) ==
  IF n = 0 THEN <<>> ELSE TableApply(TableFold(d, f, n - 1), d[f[n]])

\* league_table(league, season) on a selection that has rows
LeagueTable(d, l, s) ==
  LET f == Filter(d, l, s) IN FinalTable(TableFold(d, f, Len(f)))

\* ---- league_progression --------------------------------------------------
\* df.sort_values('Date') runs pandas' default kind='quicksort', which is not
\* a stable sort: it orders the rows by date and promises nothing about rows
\* of equal date.  Every arrangement of the frame by ascending date is a
\* possible outcome, the input order among them.  (Date is the parsed day.)
DateSorted(d, f) ==
  {p \in [1 .. Len(f) -> Range(f)] :
     /\ \A j, k \in 1 .. Len(f) : j # k => p[j] # p[k]
     /\ \A j, k \in 1 .. Len(f) : j < k => d[p[j]].Date <= d[p[k]].Date}

\* df[['HomeTeam', 'AwayTeam']].values.ravel()
RECURSIVE Ravel(_, _, _)
Ravel(d, f, k) ==
  IF k > Len(f) THEN <<>>
  ELSE <<d[f[k]].HomeTeam, d[f[k]].AwayTeam>> \o Ravel(d, f, k + 1)

AllTeams(d, f) == Unique(Ravel(d, f, 1))

ZeroStanding(t) == [Team |-> t, Points |-> 0, GF |-> 0, GA |-> 0, GD |-> 0]

\* standings = {team: {...} for team in teams}
InitialStandings(teams) == [k \in 1 .. Len(teams) |-> ZeroStanding(teams[k])]

\* a draw that pays the home side only
ProgressionPointsHomeDraw(st, home, away, gh, ga) ==
  IF gh > ga THEN Add(st, home, "Points", 3)
  ELSE IF gh < ga THEN Add(st, away, "Points", 3)
  ELSE Add(st, home, "Points", 1)

\* the points branch of league_progression
ProgressionPoints(st, home, away, gh, ga) ==
  IF gh > ga THEN Add(st, home, "Points", 3)
  ELSE IF gh < ga THEN Add(st, away, "Points", 3)
  ELSE Add(Add(st, home, "Points", 1), away, "Points", 1)

\* GD taken before the goals against are added
GoalsForStaleGD(st, t, gf, ga) ==
  LET s1 == Add(st, t, "GF", gf)
      r == Get(s1, t)
      s2 == [s1 EXCEPT ![Pos(s1, t)] = [r EXCEPT !.GD = r.GF - r.GA]]
  IN Add(s2, t, "GA", ga)

\* st[t]['GF'] += gf; st[t]['GA'] += ga; st[t]['GD'] = GF - GA
GoalsFor(st, t, gf, ga) ==
  LET s1 == Add(Add(st, t, "GF", gf), t, "GA", ga)
      r == Get(s1, t)
  IN [s1 EXCEPT ![Pos(s1, t)] = [r EXCEPT !.GD = r.GF - r.GA]]

ProgressionGoals(st, home, away, gh, ga) ==
  GoalsFor(GoalsFor(st, home, gh, ga), away, ga, gh)

ProgressionApply(st, m) ==
  ProgressionGoals(
    ProgressionPoints(st, m.HomeTeam, m.AwayTeam, m.FTHG, m.FTAG),
    m.HomeTeam, m.AwayTeam, m.FTHG, m.FTAG)

Ranked(r, k) ==
  [Team |-> r.Team, Points |-> r.Points, GF |-> r.GF, GA |-> r.GA,
   GD |-> r.GD, Rank |-> k]

\* teams level on every key share the rank of the first of them
SnapshotSharedRank(st) ==
  LET t == SortValues(st)
  IN [k \in 1 .. Len(t) |->
        Ranked(t[k], 1 + Cardinality({j \in 1 .. Len(t) : Before(t[j], t[k])}))]

RECURSIVE SelectSeen(_)
SelectSeen(st) ==
  IF st = <<>> THEN <<>>
  ELSE (IF st[1].Points = 0 /\ st[1].GF = 0 /\ st[1].GA = 0
        THEN <<>> ELSE <<st[1]>>) \o SelectSeen(Tail(st))

\* the table of the teams that have a match behind them
SnapshotSeenOnly(st) ==
  LET t == SortValues(SelectSeen(st))
  IN [k \in 1 .. Len(t) |-> Ranked(t[k], k)]

\* the table after the match: from_dict, sort_values, reset_index, and
\* table['Rank'] = table.index + 1
Snapshot(st) ==
  LET t == SortValues(st)
  IN [k \in 1 .. Len(t) |-> Ranked(t[k], k)]

\* the matches replayed so far, whoever played them
GamesPlayedAnyTeam(prog, t) == Len(prog) \div 2

\* len([p for p in progression if p['Team'] == team])
GamesPlayed(prog, t) == Cardinality({k \in 1 .. Len(prog) : prog[k].Team = t})

\* progression.append({...}) for one team
Emit(prog, tab, t, date) ==
  LET row == Get(tab, t)
  IN Append(prog,
       [Team |-> t, Matchday |-> GamesPlayed(prog, t) + 1,
        Points |-> row.Points, GF |-> row.GF, GA |-> row.GA, GD |-> row.GD,
        Rank |-> row.Rank, Date |-> date])

RECURSIVE TeamsOf(_)
TeamsOf(tab) ==
  IF tab = <<>> THEN <<>> ELSE <<tab[1].Team>> \o TeamsOf(Tail(tab))

\* an entry for every team of the table
EmitTeamsWholeTable(tab, m) == TeamsOf(tab)

\* for team in [home, away]: ...
EmitTeams(tab, m) == <<m.HomeTeam, m.AwayTeam>>

RECURSIVE EmitAll(_, _, _, _)
EmitAll(prog, tab, ts, date) ==
  IF ts = <<>> THEN prog
  ELSE EmitAll(Emit(prog, tab, Head(ts), date), tab, Tail(ts), date)

\* the dict and the list after the loop of league_progression has consumed
\* n rows of the date-sorted frame f
RECURSIVE ProgressionFold(_, _, _)
ProgressionFold(d, f, n) ==
  IF n = 0
  THEN [standings |-> InitialStandings(AllTeams(d, f)), progression |-> <<>>]
  ELSE LET prev == ProgressionFold(d, f, n - 1)
           m == d[f[n]]
           st == ProgressionApply(prev.standings, m)
           tab == Snapshot(st)
       IN [standings |-> st,
           progression |->
             EmitAll(prev.progression, tab, EmitTeams(tab, m), m.Date)]

\* league_progression(league, season), f being the selection sorted by date
LeagueProgression(d, f) == ProgressionFold(d, f, Len(f)).progression

\* ---- the calculator ------------------------------------------------------
VARIABLES
  data,         \* self.data
  pc,           \* "idle", "table", "progression", "returned", "raised"
  op,           \* the method that is running or has ended
  league,       \* its arguments
  season,
  df,           \* the selected frame, as index labels of self.data
  i,            \* rows of df the loop has consumed
  standings,    \* the local dict
  table,        \* the last table built
  progression,  \* the local list
  error,        \* payload of the raised ValueError
  left          \* calls the client still makes on this calculator

vars ==
  <<data, pc, op, league, season, df, i, standings, table, progression, error,
    left>>

NoError == [leagues |-> <<>>, seasons |-> <<>>]

\* the object after StatsCalculator(d), in a client that makes n calls
Fresh(d, n) ==
  /\ data = d
  /\ pc = "idle"
  /\ op = "none"
  /\ league = 0
  /\ season = 0
  /\ df = <<>>
  /\ i = 0
  /\ standings = <<>>
  /\ table = <<>>
  /\ progression = <<>>
  /\ error = NoError
  /\ left = n

\* StatsCalculator(data) for the matches of one season; one call follows
Init == \E d \in SeasonData : Fresh(d, 1)

\* StatsCalculator(data) for a dataset of several leagues and seasons; a
\* sequence of calls follows
InitRepo == \E d \in RepoData : Fresh(d, MaxCalls)

\* StatsCalculator(data) for rows nobody has validated; one call follows
InitRaw == \E d \in RawData : Fresh(d, 1)

\* no call is running; the caller may make the next one
Callable == pc \in {"idle", "returned", "raised"} /\ left > 0

\* either method, on a selection without rows
Raise(o, l, s) ==
  /\ Callable
  /\ Filter(data, l, s) = <<>>
  /\ pc' = "raised"
  /\ op' = o
  /\ league' = l
  /\ season' = s
  /\ error' = NoMatchesError(data)
  /\ df' = <<>>
  /\ i' = 0
  /\ standings' = <<>>
  /\ table' = <<>>
  /\ progression' = <<>>
  /\ left' = left - 1
  /\ UNCHANGED data

LeagueTableRaise == \E l \in Leagues, s \in Seasons : Raise("league_table", l, s)

ProgressionRaise ==
  \E l \in Leagues, s \in Seasons : Raise("league_progression", l, s)

\* league_table with the dict kept on the object between its calls
LeagueTableCallKeepsDict ==
  \E l \in Leagues, s \in Seasons :
    /\ Callable
    /\ Filter(data, l, s) # <<>>
    /\ pc' = "table"
    /\ op' = "league_table"
    /\ league' = l
    /\ season' = s
    /\ df' = Filter(data, l, s)
    /\ i' = 0
    /\ standings' = IF op = "league_table" THEN standings ELSE <<>>
    /\ table' = <<>>
    /\ progression' = <<>>
    /\ error' = NoError
    /\ left' = left - 1
    /\ UNCHANGED data

\* league_table up to standings = {}
LeagueTableCall ==
  \E l \in Leagues, s \in Seasons :
    /\ Callable
    /\ Filter(data, l, s) # <<>>
    /\ pc' = "table"
    /\ op' = "league_table"
    /\ league' = l
    /\ season' = s
    /\ df' = Filter(data, l, s)
    /\ i' = 0
    /\ standings' = <<>>
    /\ table' = <<>>
    /\ progression' = <<>>
    /\ error' = NoError
    /\ left' = left - 1
    /\ UNCHANGED data

\* one iteration of for _, match in df.iterrows()
LeagueTableMatch ==
  /\ pc = "table"
  /\ i < Len(df)
  /\ standings' = TableApply(standings, data[df[i + 1]])
  /\ i' = i + 1
  /\ UNCHANGED <<data, pc, op, league, season, df, table, progression, error,
                 left>>

\* the table is built, sorted and returned
LeagueTableReturn ==
  /\ pc = "table"
  /\ i = Len(df)
  /\ table' = FinalTable(standings)
  /\ pc' = "returned"
  /\ UNCHANGED <<data, op, league, season, df, i, standings, progression, error,
                 left>>

\* league_progression up to progression = []
ProgressionCall ==
  \E l \in Leagues, s \in Seasons :
    /\ Callable
    /\ Filter(data, l, s) # <<>>
    /\ \E p \in DateSorted(data, Filter(data, l, s)) :
         /\ df' = p
         /\ standings' = InitialStandings(AllTeams(data, p))
    /\ pc' = "progression"
    /\ op' = "league_progression"
    /\ league' = l
    /\ season' = s
    /\ i' = 0
    /\ table' = <<>>
    /\ progression' = <<>>
    /\ error' = NoError
    /\ left' = left - 1
    /\ UNCHANGED data

\* one iteration of for _, match in df.iterrows()
ProgressionMatch ==
  /\ pc = "progression"
  /\ i < Len(df)
  /\ LET m == data[df[i + 1]]
         st == ProgressionApply(standings, m)
         tab == Snapshot(st)
     IN /\ standings' = st
        /\ table' = tab
        /\ progression' = EmitAll(progression, tab, EmitTeams(tab, m), m.Date)
  /\ i' = i + 1
  /\ UNCHANGED <<data, pc, op, league, season, df, error, left>>

\* return pd.DataFrame(progression)
ProgressionReturn ==
  /\ pc = "progression"
  /\ i = Len(df)
  /\ pc' = "returned"
  /\ UNCHANGED <<data, op, league, season, df, i, standings, table, progression,
                 error, left>>

Next ==
  \/ LeagueTableRaise
  \/ LeagueTableCall
  \/ LeagueTableMatch
  \/ LeagueTableReturn
  \/ ProgressionRaise
  \/ ProgressionCall
  \/ ProgressionMatch
  \/ ProgressionReturn

Spec == Init /\ [][Next]_vars

SpecRepo == InitRepo /\ [][Next]_vars

SpecRaw == InitRaw /\ [][Next]_vars

\* ---- properties ----------------------------------------------------------
\* the value of field f for team t in a dict, 0 while t has no entry
Val(st, t, f) == IF Has(st, t) THEN Get(st, t)[f] ELSE 0

Delta(t, f) == Val(standings', t, f) - Val(standings, t, f)

RECURSIVE SumSeq(_)
SumSeq(s) == IF s = <<>> THEN 0 ELSE s[1] + SumSeq(Tail(s))

\* the points of all teams of a dict together
TotalPoints(st) == SumSeq([k \in 1 .. Len(st) |-> st[k].Points])

\* the step is one replayed match, and this is the match
MatchStep == pc \in {"table", "progression"} /\ i' = i + 1

Match == data[df[i']]

\* a match in the sense of the data model: two different clubs
TwoClubs(m) == m.HomeTeam # m.AwayTeam

\* the outcome rule on one replayed match (points in both methods; wins,
\* draws and losses in league_table, which alone keeps them)
C1_OutcomeStep ==
  (MatchStep /\ TwoClubs(Match)) =>
    LET h == Match.HomeTeam
        a == Match.AwayTeam
        hg == Match.FTHG
        ag == Match.FTAG
    IN /\ hg > ag => Delta(h, "Points") = 3 /\ Delta(a, "Points") = 0
       /\ hg < ag => Delta(a, "Points") = 3 /\ Delta(h, "Points") = 0
       /\ hg = ag => Delta(h, "Points") = 1 /\ Delta(a, "Points") = 1
       /\ pc = "table" =>
            /\ hg > ag => Delta(h, "Wins") = 1 /\ Delta(a, "Losses") = 1
            /\ hg < ag => Delta(a, "Wins") = 1 /\ Delta(h, "Losses") = 1
            /\ hg = ag => Delta(h, "Draws") = 1 /\ Delta(a, "Draws") = 1
       /\ \A t \in Teams \ {h, a} :
            /\ Has(standings', t) = Has(standings, t)
            /\ Has(standings, t) => Get(standings', t) = Get(standings, t)

\* C1: for every match (two different clubs, the data model's invariant) a
\* home win gives the home team 3 points and a win and the away team a loss
\* and no points, an away win the reverse, a draw one point and a draw to
\* each; the standing of every other team stays as it was
C1_Outcome == [][C1_OutcomeStep]_vars

\* league_table has replayed a home win between two clubs as third match,
\* three clubs stand
C1_Witness ==
  /\ pc = "table"
  /\ i = 3
  /\ Len(standings) = 3
  /\ TwoClubs(data[df[3]])
  /\ data[df[3]].FTHG > data[df[3]].FTAG

\* a row with one club on both sides is outside the data model; the loops
\* apply it all the same and give that club the home side's and the away
\* side's share together
OutcomeOfSelfMatch ==
  [][(MatchStep /\ ~TwoClubs(Match)) =>
       LET t == Match.HomeTeam
       IN /\ Delta(t, "Points") = (IF Match.FTHG = Match.FTAG THEN 2 ELSE 3)
          /\ pc = "table" =>
               /\ Delta(t, "Played") = 2
               /\ Delta(t, "Wins") = (IF Match.FTHG = Match.FTAG THEN 0 ELSE 1)
               /\ Delta(t, "Losses") = (IF Match.FTHG = Match.FTAG THEN 0 ELSE 1)
               /\ Delta(t, "Draws") = (IF Match.FTHG = Match.FTAG THEN 2 ELSE 0)]_vars

\* what one replayed match adds to the sum of all points
C2_TotalStep ==
  MatchStep =>
    LET d == TotalPoints(standings') - TotalPoints(standings)
    IN /\ Match.FTHG = Match.FTAG => d = 2
       /\ Match.FTHG # Match.FTAG => d = 3
       /\ 2 * i' <= TotalPoints(standings')
       /\ TotalPoints(standings') <= 3 * i'

\* C2: a match adds 2 points (draw) or 3 points (decisive) to the sum of all
\* points, so after k matches the sum lies between 2k and 3k, in league_table
\* and in league_progression
C2_Total == [][C2_TotalStep]_vars

\* league_progression has replayed draws and decisive matches
C2_Witness ==
  /\ pc = "progression"
  /\ i = 3
  /\ TotalPoints(standings) \in {7, 8}

\* C3: in league_table Played = Wins + Draws + Losses for every team after
\* every match, the returned table has GD = GF - GA, and so has every entry
\* of the progression
C3_Balance ==
  /\ pc = "table" =>
       \A k \in 1 .. Len(standings) :
         standings[k].Played = standings[k].Wins + standings[k].Draws
                                 + standings[k].Losses
  /\ (pc = "returned" /\ op = "league_table") =>
       \A k \in 1 .. Len(table) :
         /\ table[k].GD = table[k].GF - table[k].GA
         /\ table[k].Played = table[k].Wins + table[k].Draws + table[k].Losses
  /\ \A k \in 1 .. Len(progression) :
       progression[k].GD = progression[k].GF - progression[k].GA

\* league_table returned a row of three matches, a draw among them, with a
\* goal difference
C3_Witness ==
  /\ pc = "returned"
  /\ op = "league_table"
  /\ \E k \in 1 .. Len(table) :
       table[k].Played = 3 /\ table[k].Draws = 1 /\ table[k].GD # 0

\* C4: the ranks of every snapshot of league_progression are 1..N, one per
\* team, also between teams level on points, goal difference and goals for
C4_RankPermutation ==
  (op = "league_progression" /\ i >= 1) =>
    /\ {table[k].Rank : k \in 1 .. Len(table)} = 1 .. Len(table)
    /\ \A j, k \in 1 .. Len(table) :
         j # k => table[j].Rank # table[k].Rank /\ table[j].Team # table[k].Team

SameKey(a, b) == a.Points = b.Points /\ a.GD = b.GD /\ a.GF = b.GF

\* three teams level on every key after three matches
C4_Witness ==
  /\ pc = "progression"
  /\ i = 3
  /\ Len(table) = 3
  /\ SameKey(table[1], table[2])
  /\ SameKey(table[2], table[3])
  /\ table[1].Points > 0

\* (Points, GD, GF) of a is lexicographically at least that of b
LexGE(a, b) ==
  \/ a.Points > b.Points
  \/ a.Points = b.Points /\ a.GD > b.GD
  \/ a.Points = b.Points /\ a.GD = b.GD /\ a.GF >= b.GF

\* C5: the table of league_table and every snapshot of league_progression
\* is ordered by points, then goal difference, then goals for, descending
C5_Ordered ==
  \A j, k \in 1 .. Len(table) :
    j < k => LexGE(table[j], table[k]) /\ table[j].Points >= table[k].Points

\* league_table returned teams level on points, apart on goal difference
C5_Witness ==
  /\ pc = "returned"
  /\ op = "league_table"
  /\ Len(table) = 3
  /\ \E k \in 1 .. 2 :
       table[k].Points = table[k + 1].Points /\ table[k].GD > table[k + 1].GD

\* the entries of team t, in the order of emission
RECURSIVE EntriesOf(_, _)
EntriesOf(prog, t) ==
  IF prog = <<>> THEN <<>>
  ELSE (IF prog[1].Team = t THEN <<prog[1]>> ELSE <<>>)
       \o EntriesOf(Tail(prog), t)

\* the replayed matches team t played in
MatchesOf(t) ==
  {k \in 1 .. i : data[df[k]].HomeTeam = t \/ data[df[k]].AwayTeam = t}

\* every replayed row of team t is a match between two clubs
PlayedOthersOnly(t) ==
  \A k \in 1 .. i :
    (data[df[k]].HomeTeam = t \/ data[df[k]].AwayTeam = t) => TwoClubs(data[df[k]])

\* C6: the Matchday values of a team's entries are 1, 2, ..., m in emission
\* order, m being the number of matches (each between the team and another
\* club, the data model's invariant) the team has played
C6_Matchdays ==
  op = "league_progression" =>
    \A t \in Teams :
      PlayedOthersOnly(t) =>
        LET e == EntriesOf(progression, t)
        IN /\ Len(e) = Cardinality(MatchesOf(t))
           /\ \A k \in 1 .. Len(e) : e[k].Matchday = k

\* a finished progression of matches between two clubs, with a team of
\* three matches and one of a single
C6_Witness ==
  /\ pc = "returned"
  /\ op = "league_progression"
  /\ \A k \in 1 .. Len(df) : TwoClubs(data[df[k]])
  /\ \E t, u \in Teams :
       Len(EntriesOf(progression, t)) = 3 /\ Len(EntriesOf(progression, u)) = 1

\* the times team t stood on a side of a replayed row
Appearances(t) ==
  Cardinality({k \in 1 .. i : data[df[k]].HomeTeam = t})
    + Cardinality({k \in 1 .. i : data[df[k]].AwayTeam = t})

\* on any rows, those with one club on both sides included, a team's
\* Matchday values are 1, 2, ..., one per side it stood on
MatchdaysCountAppearances ==
  op = "league_progression" =>
    \A t \in Teams :
      LET e == EntriesOf(progression, t)
      IN /\ Len(e) = Appearances(t)
         /\ \A k \in 1 .. Len(e) : e[k].Matchday = k

\* C7: league_progression replays the matches by ascending date, and those
\* of one date in the order of the input table
C7_StableDateOrder ==
  op = "league_progression" =>
    \A j, k \in 1 .. Len(df) :
      j < k =>
        /\ data[df[j]].Date <= data[df[k]].Date
        /\ data[df[j]].Date = data[df[k]].Date => df[j] < df[k]

IsAscending(s) == \A j, k \in 1 .. Len(s) : j < k => s[j] < s[k]

Selected == {k \in 1 .. Len(data) : data[k].league = league /\ data[k].year = season}

\* C8: a selection without matches makes either method fail, the error
\* naming the sorted leagues and the sorted seasons of the dataset, with no
\* standings, table or progression built
C8_NoMatches ==
  /\ pc = "raised" =>
       /\ Selected = {}
       /\ IsAscending(error.leagues)
       /\ Range(error.leagues) = {data[k].league : k \in 1 .. Len(data)}
       /\ IsAscending(error.seasons)
       /\ Range(error.seasons) = {data[k].year : k \in 1 .. Len(data)}
       /\ standings = <<>> /\ table = <<>> /\ progression = <<>> /\ i = 0
  /\ pc \in {"table", "progression", "returned"} => Selected # {}

\* league_progression failed on a dataset that lists league 2 before league
\* 1 and season 2 before season 1
C8_Witness ==
  /\ pc = "raised"
  /\ op = "league_progression"
  /\ Len(data) >= 2
  /\ data[1].league = 2 /\ data[1].year = 2
  /\ data[2].league = 1 /\ data[2].year = 1

TableTeams == {table[k].Team : k \in 1 .. Len(table)}

\* the teams of the first n rows of the frame
TeamsUpTo(n) ==
  {data[df[k]].HomeTeam : k \in 1 .. n} \cup {data[df[k]].AwayTeam : k \in 1 .. n}

\* C9 as stated: the snapshot holds exactly the teams that have appeared in
\* a match so far
C9_SeenSoFar ==
  (pc = "progression" /\ i >= 1) => TableTeams = TeamsUpTo(i)

\* C9 as amended: the snapshot holds every team of the selected matches,
\* from the first match on
C9_AllTeams ==
  (pc = "progression" /\ i >= 1) =>
    /\ TableTeams = TeamsUpTo(Len(df))
    /\ Len(table) = Cardinality(TableTeams)

\* the first snapshot ranks a team whose first match is still to come
C9_Witness ==
  /\ pc = "progression"
  /\ i = 1
  /\ Len(df) = 3
  /\ Len(table) = 3
  /\ Cardinality(TeamsUpTo(1)) = 2

\* C10 as stated: after each match every team of the snapshot gets an entry
C10_EntryPerTeam ==
  (pc = "progression" /\ i >= 1) =>
    \A t \in TableTeams : Len(EntriesOf(progression, t)) = i

\* what one replayed match appends to the progression
C10_TwoEntriesStep ==
  (pc = "progression" /\ i' = i + 1) =>
    LET n == Len(progression)
        e == progression'
    IN /\ Len(e) = n + 2
       /\ SubSeq(e, 1, n) = progression
       /\ e[n + 1].Team = Match.HomeTeam
       /\ e[n + 2].Team = Match.AwayTeam
       /\ \A k \in {n + 1, n + 2} :
            /\ e[k].Date = Match.Date
            /\ \E r \in 1 .. Len(table') :
                 /\ table'[r].Team = e[k].Team
                 /\ table'[r].Rank = e[k].Rank
                 /\ table'[r].Points = e[k].Points
                 /\ table'[r].GF = e[k].GF
                 /\ table'[r].GA = e[k].GA
                 /\ table'[r].GD = e[k].GD

\* C10 as amended: each match adds two entries, the home team's and then the
\* away team's, with the points, goals and rank of the snapshot and the date
\* of the match, and none for any other team
C10_TwoEntries == [][C10_TwoEntriesStep]_vars

\* two matches replayed among three ranked teams: four entries
C10_Witness ==
  /\ pc = "progression"
  /\ i = 2
  /\ Len(table) = 3
  /\ Len(progression) = 4

\* goals are not negative and both clubs have a name
ValidMatch(m) ==
  m.FTHG >= 0 /\ m.FTAG >= 0 /\ m.HomeTeam # "" /\ m.AwayTeam # ""

\* C11: a match with negative goals or an empty team id is rejected with an
\* invalid-match error and never reaches the standings: every match the
\* loop has applied is a valid one
C11_InvalidRejected ==
  pc \in {"table", "progression", "returned"} =>
    \A k \in 1 .. i : ValidMatch(data[df[k]])

\* what a single call on a new calculator for dataset d holds at position p
\* of method o, called for league l and season s, after n rows: the frame
\* fr, the dict st, the table tab and the list prog
C12_AsSingleCall(d, p, o, l, s, fr, n, st, tab, prog) ==
  LET f == Filter(d, l, s)
  IN /\ p = "raised" => f = <<>>
     /\ p = "table" => fr = f /\ st = TableFold(d, f, n)
     /\ (p = "returned" /\ o = "league_table") => tab = LeagueTable(d, l, s)
     /\ (o = "league_progression" /\ p # "raised") =>
          /\ fr \in DateSorted(d, f)
          /\ st = ProgressionFold(d, fr, n).standings
          /\ prog = ProgressionFold(d, fr, n).progression
     /\ (p = "returned" /\ o = "league_progression") =>
          prog = LeagueProgression(d, fr)

\* C12: every call starts from a fresh standings map and leaves self.data as
\* it was, so after any sequence of calls the running or finished call holds
\* what a single call for its league and season holds
C12_Reentrant ==
  [][/\ data' = data
     /\ C12_AsSingleCall(data', pc', op', league', season', df', i',
                         standings', table', progression')]_vars

\* the second call on a calculator has returned: a league_table over two of
\* the three rows of a dataset of several leagues and seasons
C12_Witness ==
  /\ left = MaxCalls - 2
  /\ pc = "returned"
  /\ op = "league_table"
  /\ Len(data) = 3
  /\ Len(df) = 2
  /\ Len(table) = 2
  /\ table[1].Points > table[2].Points

\* C13: the last entry of each team in the finished progression carries the
\* Points, GF, GA and GD of the team's row in league_table, and its Matchday
\* is that row's Played, whatever the input order of the matches
C13_FinalTotalsAgree ==
  (pc = "returned" /\ op = "league_progression") =>
    LET tab == LeagueTable(data, league, season)
    IN /\ {tab[k].Team : k \in 1 .. Len(tab)}
            = {progression[k].Team : k \in 1 .. Len(progression)}
       /\ \A k \in 1 .. Len(tab) :
            LET e == EntriesOf(progression, tab[k].Team)
                last == e[Len(e)]
            IN /\ Len(e) >= 1
               /\ last.Points = tab[k].Points
               /\ last.GF = tab[k].GF
               /\ last.GA = tab[k].GA
               /\ last.GD = tab[k].GD
               /\ last.Matchday = tab[k].Played

\* three matches among three teams, replayed in another order than the
\* input's, with goals scored
C13_Witness ==
  /\ pc = "returned"
  /\ op = "league_progression"
  /\ Len(df) = 3
  /\ df # Filter(data, league, season)
  /\ Len(table) = 3
  /\ \E k \in 1 .. 3 : table[k].GD # 0

====
